---- MODULE Spec2Model ----
(***************************************************************************)
(* CBM-GGUF loader (CBM.jl/src/cpp/cbm_loader.cpp): one CBM_Model record,  *)
(* the container parser load_cbm_file, the materializer                    *)
(* materialize_intelligence and destroy_model, over a device heap managed  *)
(* by cudaMalloc / cudaFree.                                               *)
(*                                                                         *)
(* Bytes are naturals 0..255.  size_t values are 8 little-endian base-256  *)
(* limbs, so 64-bit wrap-around and the narrowing to a 32-bit int are      *)
(* computed at their real widths.  Device pointers are 0 (NULL) or an      *)
(* address 1..NumAddrs.                                                    *)
(***************************************************************************)
EXTENDS Integers, Sequences, FiniteSets

\* ------------------------------------------------------------------ bounds
MaxSeed == 1
NumAddrs == 2

\* ------------------------------------------------------- program constants
CBM_MAGIC == <<67, 66, 78, 81>>
SizeofHeader == 16
SizeofMetadata == 104
SeedSizeOffset == 96
SizeofFloat == 4
Threads == 256
NULL == 0

VARIABLES model, heap, last_op, arg_file, arg_param, ret, trace,
          blocks, materialized

vars == <<model, heap, last_op, arg_file, arg_param, ret, trace,
          blocks, materialized>>

\* ------------------------------------------------------------ byte helpers
Min(a, b) == IF a < b THEN a ELSE b

Zeros(n) == [i \in 1..n |-> 0]

Prefix(s, n) == SubSeq(s, 1, Min(n, Len(s)))

\* ---------------------------------------------------- size_t (8 limbs, LE)
RECURSIVE AddCarry(_, _, _)
AddCarry(x, i, c) ==
    IF i > Len(x) THEN <<>>
    ELSE LET s == x[i] + c
         IN  <<s % 256>> \o AddCarry(x, i + 1, s \div 256)

RECURSIVE MulCarry(_, _, _, _)
MulCarry(x, k, i, c) ==
    IF i > Len(x) THEN <<>>
    ELSE LET s == x[i] * k + c
         IN  <<s % 256>> \o MulCarry(x, k, i + 1, s \div 256)

\* x + k and x * k in size_t arithmetic (mod 2^64), 0 <= k <= 256
U64Add(x, k) == AddCarry(x, 1, k)
U64Mul(x, k) == MulCarry(x, k, 1, 0)
\* x / 256 in size_t arithmetic
U64Div256(x) == Tail(x) \o <<0>>
U64Zero == Zeros(8)
U64(b0, b1, b2, b3, b4, b5, b6, b7) == <<b0, b1, b2, b3, b4, b5, b6, b7>>

\* conversion size_t -> int: the low 32 bits, read as two's complement
ToInt(x) ==
    LET lo == x[1] + 256 * x[2] + 65536 * x[3]
    IN  IF x[4] < 128 THEN lo + 16777216 * x[4]
        ELSE lo + 16777216 * (x[4] - 256)

\* int blocks = (param_count + threads - 1) / threads;
LaunchBlocks(param_count) ==
    ToInt(U64Div256(U64Add(param_count, Threads - 1)))

\* param_count * sizeof(float)
WeightBytes(param_count) == U64Mul(param_count, SizeofFloat)

\* ------------------------------------------------------------------- files
\* A container file on disk: header, metadata, payload, cut to `cut` bytes.
FileHeader(magic) == magic \o <<0, 1>> \o <<0, 0>> \o Zeros(8)

FileMetadata(ss) ==
    <<116, 101, 115, 116>> \o Zeros(60) \o <<100, 101, 109, 111>> \o Zeros(28)
      \o <<ss % 256, (ss \div 256) % 256, 0, 0>> \o Zeros(4)

FilePayload(n) == [i \in 1..n |-> i]

FileBytes(f) ==
    Prefix(FileHeader(f.magic) \o FileMetadata(f.ss) \o FilePayload(f.np), f.cut)

BadMagic == <<67, 66, 78, 88>>
FullCut == SizeofHeader + SizeofMetadata + MaxSeed
File(mg, s, n, c) == [exists |-> TRUE, magic |-> mg, ss |-> s, np |-> n, cut |-> c]
NoFile == [exists |-> FALSE, magic |-> <<>>, ss |-> 0, np |-> 0, cut |-> 0]

\* paths handed to load_cbm_file: complete files with every declared seed_size
\* and payload length, a file with a wrong magic, an empty file, files cut
\* after the magic and inside the metadata, and a path that cannot be opened
Paths ==
    { File(CBM_MAGIC, s, n, FullCut) : s \in 0..MaxSeed, n \in 0..MaxSeed }
    \cup { File(BadMagic, MaxSeed, MaxSeed, FullCut) }
    \cup { File(CBM_MAGIC, MaxSeed, MaxSeed, c) :
             c \in {0, 4, SizeofHeader + SeedSizeOffset + 1} }
    \cup { NoFile }

\* param_count values handed to materialize_intelligence
P0 == U64Zero
P1000 == U64(232, 3, 0, 0, 0, 0, 0, 0)
P7B == U64(0, 134, 59, 161, 1, 0, 0, 0)
P2e62 == U64(0, 0, 0, 0, 0, 0, 0, 64)
Params == {P0, P1000, P2e62}

\* ---------------------------------------------------------- std::ifstream
\* istream::read(buf, n): extracts up to n bytes into buf; sets failbit when
\* fewer than n are available; does nothing on a stream that already failed.
StreamRead(stream, buf, n) ==
    IF stream.fail THEN [stream |-> stream, buf |-> buf]
    ELSE LET k == Min(n, Len(stream.bytes) - stream.pos)
         IN  [stream |-> [stream EXCEPT !.pos = @ + k, !.fail = (k < n)],
              buf |-> [i \in 1..Len(buf) |->
                         IF i <= k THEN stream.bytes[stream.pos + i] ELSE buf[i]]]

\* strncmp(model->header.magic, CBM_MAGIC, 4) != 0
MagicMismatch(header) == SubSeq(header, 1, 4) # CBM_MAGIC

\* model->metadata.seed_size (uint32_t, little-endian, at offset 96)
seed_size(metadata) ==
    metadata[SeedSizeOffset + 1] + 256 * metadata[SeedSizeOffset + 2]
      + 65536 * metadata[SeedSizeOffset + 3] + 16777216 * metadata[SeedSizeOffset + 4]

\* (mutation of ResizeSeed: the buffer is not resized)
ResizeSeed_Keep(s, n) == s

\* std::vector<uint8_t>::resize(n)
ResizeSeed(s, n) == [i \in 1..n |-> IF i <= Len(s) THEN s[i] ELSE 0]

\* bool load_cbm_file(const char* path, CBM_Model* model)
load_cbm_file(f, m) ==
    IF ~f.exists THEN [ret |-> FALSE, model |-> m]
    ELSE
      LET s0 == [bytes |-> FileBytes(f), pos |-> 0, fail |-> FALSE]
          r1 == StreamRead(s0, m.header, SizeofHeader)
          m1 == [m EXCEPT !.header = r1.buf]
      IN  IF MagicMismatch(m1.header) THEN [ret |-> FALSE, model |-> m1]
          ELSE
            LET r2 == StreamRead(r1.stream, m1.metadata, SizeofMetadata)
                m2 == [m1 EXCEPT !.metadata = r2.buf]
                sz == seed_size(m2.metadata)
                r3 == StreamRead(r2.stream, ResizeSeed(m2.seed, sz), sz)
            IN  [ret |-> TRUE, model |-> [m2 EXCEPT !.seed = r3.buf]]

\* ------------------------------------------------------------ device heap
Addrs == 1..NumAddrs
Live == {"weights", "seed"}

\* cudaMalloc(&p, size): the outcomes of one call.  On success the pointer is
\* an address that is not currently allocated; a request for zero bytes
\* succeeds with NULL or with such an address.  The call can fail whatever the
\* size; the CUDA runtime does not say what a failed call does to *p, so it
\* is either left untouched (written = FALSE) or set to NULL.
cudaMalloc(h, zero, kind) ==
    { [ok |-> TRUE, written |-> TRUE, ptr |-> a, heap |-> [h EXCEPT ![a] = kind]] :
        a \in {x \in Addrs : h[x] \notin Live} }
    \cup (IF zero THEN {[ok |-> TRUE, written |-> TRUE, ptr |-> NULL, heap |-> h]}
          ELSE {})
    \cup { [ok |-> FALSE, written |-> w, ptr |-> NULL, heap |-> h] : w \in BOOLEAN }

\* cudaFree(p): releases a live allocation; NULL or an address that is not
\* allocated leaves the heap as it is.
cudaFree(h, p) ==
    IF p # NULL /\ h[p] \in Live THEN [h EXCEPT ![p] = "free"] ELSE h

CellOf(h, p) == IF p = NULL THEN "null" ELSE h[p]

\* the device calls made by the last operation, in order: the call, the
\* variable it was made on, and what it met (the result of an allocation, the
\* state of the memory a pointer referred to)
MallocEvent(r, var) ==
    [call |-> "cudaMalloc", var |-> var, met |-> IF r.ok THEN "ok" ELSE "error"]
CopyEvent(h, p) == [call |-> "cudaMemcpy", var |-> "d_seed", met |-> CellOf(h, p)]
FreeEvent(h, p, var) == [call |-> "cudaFree", var |-> var, met |-> CellOf(h, p)]

\* (mutation of ReleaseSeed: the staged seed is not released)
ReleaseSeed_Leak(h, d_seed) == h

\* cudaFree(d_seed) at the end of materialize_intelligence
ReleaseSeed(h, d_seed) == cudaFree(h, d_seed)

\* the value of the local d_seed after cudaMalloc(&d_seed, ...): the address
\* written by a successful call, NULL, or, when a failed call left the
\* uninitialised local untouched, any pointer value
SeedPointers(r) ==
    IF r.ok \/ r.written THEN {r.ptr} ELSE {NULL} \cup Addrs

\* bool materialize_intelligence(CBM_Model* model, size_t param_count):
\* the set of outcomes of one call
materialize_intelligence(m, h, param_count) ==
    LET m1 == [m EXCEPT !.weight_count = param_count]
        bytes == WeightBytes(param_count)
    IN  UNION {
          IF ~r1.ok
          THEN { [ret |-> FALSE,
                  model |-> [m1 EXCEPT !.d_weights = IF r1.written THEN NULL ELSE @],
                  heap |-> h,
                  trace |-> <<MallocEvent(r1, "d_weights")>>,
                  blocks |-> 0] }
          ELSE UNION {
                 { [ret |-> TRUE,
                    model |-> [m1 EXCEPT !.d_weights = r1.ptr],
                    heap |-> ReleaseSeed(r2.heap, d_seed),
                    trace |-> <<MallocEvent(r1, "d_weights"),
                                MallocEvent(r2, "d_seed"),
                                CopyEvent(r2.heap, d_seed),
                                FreeEvent(r2.heap, d_seed, "d_seed")>>,
                    blocks |-> LaunchBlocks(param_count)] : d_seed \in SeedPointers(r2) }
                 : r2 \in cudaMalloc(r1.heap, Len(m1.seed) = 0, "seed") }
          : r1 \in cudaMalloc(h, bytes = U64Zero, "weights") }

\* (mutation of destroy_model: the handle is not cleared after the release)
destroy_model_KeepHandle(m, h) ==
    IF m.d_weights # NULL
    THEN [model |-> [m EXCEPT !.seed = <<>>],
          heap |-> cudaFree(h, m.d_weights),
          trace |-> <<FreeEvent(h, m.d_weights, "d_weights")>>]
    ELSE [model |-> [m EXCEPT !.seed = <<>>], heap |-> h, trace |-> <<>>]

\* void destroy_model(CBM_Model* model)
destroy_model(m, h) ==
    IF m.d_weights # NULL
    THEN [model |-> [m EXCEPT !.d_weights = NULL, !.seed = <<>>],
          heap |-> cudaFree(h, m.d_weights),
          trace |-> <<FreeEvent(h, m.d_weights, "d_weights")>>]
    ELSE [model |-> [m EXCEPT !.seed = <<>>], heap |-> h, trace |-> <<>>]

\* ------------------------------------------------------------ state machine
\* CBM_Model model = {};
Init ==
    /\ model = [header |-> Zeros(SizeofHeader), metadata |-> Zeros(SizeofMetadata),
                seed |-> <<>>, d_weights |-> NULL, weight_count |-> U64Zero]
    /\ heap = [a \in Addrs |-> "free"]
    /\ last_op = "none"
    /\ arg_file = NoFile
    /\ arg_param = U64Zero
    /\ ret = FALSE
    /\ trace = <<>>
    /\ blocks = 0
    /\ materialized = FALSE

Load ==
    \E f \in Paths :
      LET o == load_cbm_file(f, model)
      IN  /\ model' = o.model
          /\ ret' = o.ret
          /\ arg_file' = f
          /\ last_op' = "load"
          /\ trace' = <<>>
          /\ arg_param' = U64Zero
          /\ blocks' = 0
          /\ UNCHANGED <<heap, materialized>>

Materialize ==
    \E p \in Params :
      \E o \in materialize_intelligence(model, heap, p) :
          /\ model' = o.model
          /\ heap' = o.heap
          /\ ret' = o.ret
          /\ trace' = o.trace
          /\ blocks' = o.blocks
          /\ arg_param' = p
          /\ last_op' = "materialize"
          /\ materialized' = (materialized \/ o.ret)
          /\ arg_file' = NoFile

Destroy ==
    LET o == destroy_model(model, heap)
    IN  /\ model' = o.model
        /\ heap' = o.heap
        /\ trace' = o.trace
        /\ last_op' = "destroy"
        /\ materialized' = FALSE
        /\ ret' = FALSE
        /\ arg_file' = NoFile
        /\ arg_param' = U64Zero
        /\ blocks' = 0

Next == Load \/ Materialize \/ Destroy

Spec == Init /\ [][Next]_vars

\* ------------------------------------------------- launch geometry alone
\* param_count values for the launch geometry: the boundaries of a block,
\* of the 32-bit int and of size_t, the default 7,000,000,000 and 1000
GeomParams ==
    { U64(b0, b1, 0, 0, b4, 0, 0, b7) :
        b0 \in {0, 1, 232, 255}, b1 \in {0, 3, 255}, b4 \in {0, 1, 127, 128},
        b7 \in {0, 64, 255} }
    \cup { P7B, U64(1, 255, 255, 255, 127, 0, 0, 0), U64(255, 255, 255, 255, 255, 255, 255, 255) }

GeomInit ==
    /\ model = [header |-> Zeros(SizeofHeader), metadata |-> Zeros(SizeofMetadata),
                seed |-> <<>>, d_weights |-> NULL, weight_count |-> U64Zero]
    /\ heap = [a \in Addrs |-> "free"]
    /\ last_op = "none"
    /\ arg_file = NoFile
    /\ arg_param \in GeomParams
    /\ ret = FALSE
    /\ trace = <<>>
    /\ blocks = 0
    /\ materialized = FALSE

\* lines 94-95 of materialize_intelligence on their own
Geometry ==
    /\ last_op = "none"
    /\ blocks' = LaunchBlocks(arg_param)
    /\ last_op' = "geometry"
    /\ UNCHANGED <<model, heap, arg_file, arg_param, ret, trace, materialized>>

GeomNext == Geometry

GeomSpec == GeomInit /\ [][GeomNext]_vars

\* ================================================================= claims
LiveWeights == {a \in Addrs : heap[a] = "weights"}
LiveAny == {a \in Addrs : heap[a] \in Live}
Calls(t, c, v) == {i \in 1..Len(t) : t[i].call = c /\ t[i].var = v}
ParsedFile == last_op = "load" /\ arg_file.exists
FileLen(f) == Len(FileBytes(f))
PrefixLen == SizeofHeader + SizeofMetadata

\* C1: the device handle is non-null if and only if some materialize call has
\* succeeded and no destroy call has run since that success.
C1_HandleIffMaterialized == (model.d_weights # NULL) <=> materialized

\* C2: a file with a valid magic that holds fewer bytes after its 120-byte
\* prefix than the seed_size it declares is rejected by load_cbm_file.
C2_TruncatedRejected ==
    (/\ ParsedFile
     /\ Prefix(FileBytes(arg_file), 4) = CBM_MAGIC
     /\ FileLen(arg_file) >= PrefixLen
     /\ FileLen(arg_file) - PrefixLen < arg_file.ss)
    => ~ret

\* C3: a file whose first 4 bytes are not the magic (a file shorter than 4
\* bytes included) is rejected by load_cbm_file, and the call leaves the
\* metadata and the seed buffer of the Model as they were.
C3_BadMagicRejected ==
    [][ (/\ last_op' = "load"
         /\ arg_file'.exists
         /\ Prefix(FileBytes(arg_file'), 4) # CBM_MAGIC)
        => (/\ ~ret'
            /\ model'.metadata = model.metadata
            /\ model'.seed = model.seed) ]_vars

\* C4 (as stated): after a successful load_cbm_file the seed buffer has
\* metadata.seed_size bytes, the device handle is null and weight_count is 0,
\* whatever the Model held before.
C4_ParseResetsModel ==
    (last_op = "load" /\ ret)
    => (/\ Len(model.seed) = seed_size(model.metadata)
        /\ model.d_weights = NULL
        /\ model.weight_count = U64Zero)

\* C4 (amended): after a successful load_cbm_file the seed buffer has
\* metadata.seed_size bytes, and the device handle and weight_count are the
\* ones the Model held before the call.
C4_ParseKeepsHandle ==
    [][ (last_op' = "load" /\ ret')
        => (/\ Len(model'.seed) = seed_size(model'.metadata)
            /\ model'.d_weights = model.d_weights
            /\ model'.weight_count = model.weight_count) ]_vars

\* C4 witness: load_cbm_file has succeeded on a Model that holds a device
\* handle from an earlier materialize.
C4_Witness == last_op = "load" /\ ret /\ model.d_weights # NULL /\ Len(model.seed) > 0

C6_MaterializeResult ==
    (last_op = "materialize" /\ arg_param # U64Zero)
    => (/\ ret <=> trace[1].met = "ok"
        /\ ret => (/\ model.d_weights # NULL
                   /\ model.weight_count = arg_param)
        /\ ~ret => model.d_weights = NULL)

\* C7: a successful materialize_intelligence has invoked the expansion kernel
\* exactly once, after the seed was copied to the device and before the staged
\* seed buffer was released.
C7_KernelLaunchedOnce ==
    (last_op = "materialize" /\ ret)
    => \E i \in 1..Len(trace) :
         /\ trace[i].call = "launch"
         /\ \A j \in 1..Len(trace) : trace[j].call = "launch" => j = i
         /\ \E j \in Calls(trace, "cudaMemcpy", "d_seed") : j < i
         /\ \A j \in Calls(trace, "cudaFree", "d_seed") : i < j

\* C8: no staged-seed buffer is allocated when materialize_intelligence has
\* returned: on the failure return none was requested, and on the success
\* return the buffer that was allocated has been released, once.
C8_StagedSeedReleased ==
    /\ \A a \in Addrs : heap[a] # "seed"
    /\ (last_op = "materialize" /\ ~ret) => Calls(trace, "cudaMalloc", "d_seed") = {}
    /\ (last_op = "materialize" /\ ret)
         => (/\ Cardinality(Calls(trace, "cudaMalloc", "d_seed")) = 1
             /\ Cardinality(Calls(trace, "cudaFree", "d_seed")) = 1)

\* C8 witness: a materialize_intelligence call allocated the staged-seed
\* buffer and released that live buffer before it returned.
C8_Witness ==
    /\ last_op = "materialize"
    /\ ret
    /\ \E i \in Calls(trace, "cudaMalloc", "d_seed") : trace[i].met = "ok"
    /\ \E i \in Calls(trace, "cudaFree", "d_seed") : trace[i].met = "seed"

\* ceil(param_count / 256) as a natural number in limbs
CeilDiv256(p) == IF p[1] = 0 THEN U64Div256(p) ELSE U64Add(U64Div256(p), 1)
NatToU64(n) ==
    [i \in 1..8 |->
       IF i = 1 THEN n % 256
       ELSE IF i = 2 THEN (n \div 256) % 256
       ELSE IF i = 3 THEN (n \div 65536) % 256
       ELSE IF i = 4 THEN (n \div 16777216) % 256
       ELSE 0]

\* C9: the block count is ceil(param_count / 256) for every param_count, and
\* 4 for param_count = 1000.
C9_BlocksAreCeil ==
    (last_op = "geometry")
    => (/\ blocks >= 0
        /\ NatToU64(blocks) = CeilDiv256(arg_param)
        /\ arg_param = P1000 => blocks = 4)

\* C10: at most one output buffer is allocated at any time, and after
\* destroy_model no device buffer remains allocated.
C10_NoLeak ==
    /\ Cardinality(LiveWeights) <= 1
    /\ last_op = "destroy" => LiveAny = {}

====
